---- MODULE Spec2Model ----
(***************************************************************************)
(* ETF news bot (etf_new_bot.py): the deduplication store, the text        *)
(* formatter, the news fetcher with its query cache and the /getNews       *)
(* dispatch cycle.  Text is a sequence of one-character strings, so that   *)
(* escaping, stripping, slicing and the length-driven splitting loop are   *)
(* computed on the characters, as the Python code computes them.           *)
(***************************************************************************)
EXTENDS Integers, Sequences, FiniteSets, TLC

VARIABLES
  fileExists,     \* os.path.exists(SEEN_FILE)
  fileText,       \* the characters of seen_articles.txt
  seen_articles,  \* module global seen_articles (set of URLs)
  news_cache,     \* module global news_cache: query -> article list
  pc,             \* position of the send_news handler
  idx,            \* position in keywords.items()
  articles,       \* send_news local: the list get_news returned
  etf_message,    \* send_news local: the text still to be sent for the ticker
  sent,           \* messages bot.send_message delivered in the current cycle
  outcome,        \* how the last dispatch cycle ended
  delivered,      \* URLs whose article block was in a delivered message
  loaded,         \* what load_seen_articles returned at process start
  seenAtStart,    \* seen_articles when the current cycle started
  okAtStart,      \* queries answered 200 before the current cycle started
  apiLog,         \* per query, the statuses requests.get produced (this process)
  got,            \* per ticker of the current cycle, what get_news returned
  non200,         \* tickers whose fetch was answered non-200 in the current cycle
  used,           \* counters of the bounded environment
  text,           \* the formatter's input (formatter specification)
  escaped         \* the formatter's output (formatter specification)

vars == <<fileExists, fileText, seen_articles, news_cache, pc, idx, articles,
          etf_message, sent, outcome, delivered, loaded, seenAtStart,
          okAtStart, apiLog, got, non200, used, text, escaped>>

-----------------------------------------------------------------------------
(* Bounds of the environment.                                              *)

MaxCycles == 2      \* /getNews commands handled
MaxEvents == 2      \* answers with articles, non-200 answers, exceptions, restarts
MaxSent == 6       \* messages delivered in one cycle
MaxTextLen == 2     \* length of the formatter's input in the formatter specification

-----------------------------------------------------------------------------
(* Python strings.                                                         *)

None == <<"<None>">>

\* The grave accent character (U+0060), which a string literal here cannot hold.
GRAVE == "<grave>"

\* The bullet character (U+2022) of the article block.
BULLET == "<bullet>"

Whitespace == {" ", "\t", "\n", "\r", "\f"}

\* c * n
Rep(c, n) == SubSeq([i \in 1..n |-> c], 1, n)

Min(S) == CHOOSE x \in S : \A y \in S : x <= y

Max(S) == CHOOSE x \in S : \A y \in S : x >= y

RECURSIVE LeadingWs(_, _)
LeadingWs(s, i) ==
  IF i <= Len(s) /\ s[i] \in Whitespace THEN LeadingWs(s, i + 1) ELSE i

RECURSIVE TrailingWs(_, _)
TrailingWs(s, j) ==
  IF j >= 1 /\ s[j] \in Whitespace THEN TrailingWs(s, j - 1) ELSE j

\* str.strip()
strip(s) == SubSeq(s, LeadingWs(s, 1), TrailingWs(s, Len(s)))

\* s[:k]
SliceTo(s, k) ==
  IF k >= 0 THEN SubSeq(s, 1, IF k < Len(s) THEN k ELSE Len(s))
  ELSE SubSeq(s, 1, IF Len(s) + k > 0 THEN Len(s) + k ELSE 0)

\* s[k:]
SliceFrom(s, k) ==
  IF k >= 0 THEN SubSeq(s, k + 1, Len(s))
  ELSE SubSeq(s, (IF Len(s) + k > 0 THEN Len(s) + k ELSE 0) + 1, Len(s))

\* rfind without its end bound
rfind_unbounded(s, c, lo, hi) ==
  LET at == {i \in lo..(Len(s) - 1) : s[i + 1] = c}
  IN IF at = {} THEN -1 ELSE Max(at)

\* s.rfind(c, lo, hi): highest index in [lo, hi) holding c, or -1 (0-based)
rfind(s, c, lo, hi) ==
  LET end == IF hi < Len(s) THEN hi ELSE Len(s)
      at == {i \in lo..(end - 1) : s[i + 1] = c}
  IN IF at = {} THEN -1 ELSE Max(at)

\* whether needle occurs in s
Contains(s, needle) ==
  \E i \in 1..(Len(s) - Len(needle) + 1) :
    /\ s[i] = needle[1]
    /\ SubSeq(s, i, i + Len(needle) - 1) = needle

-----------------------------------------------------------------------------
(* Text formatter.                                                         *)

\* The characters the pattern of escape_markdown_v2 leaves a backslash out of:
\* the reserved set of the MarkdownV2 documentation.
escape_chars_documented ==
  {"_", "*", "[", "]", "(", ")", "~", GRAVE, ">", "#", "+", "-", "=", "|",
   "{", "}", ".", "!"}

\* The character class re.escape(escape_chars) builds: the raw string holds
\* three backslashes and re.escape keeps each as a member of the class.
escape_chars ==
  {"_", "*", "\\", "[", "]", "(", ")", "~", GRAVE, ">", "#", "+", "-", "=", "|",
   "{", "}", ".", "!"}

\* re.sub of the class with a backslash and the matched character
RECURSIVE re_sub_escape(_)
re_sub_escape(s) ==
  LET hits == {i \in 1..Len(s) : s[i] \in escape_chars}
  IN IF hits = {} THEN s
     ELSE LET i == Min(hits)
          IN SubSeq(s, 1, i - 1) \o <<"\\", s[i]>>
               \o re_sub_escape(SubSeq(s, i + 1, Len(s)))

escape_markdown_v2(t) ==
  IF t = None \/ t = <<>> THEN <<>> ELSE re_sub_escape(t)

\* End of the match of '<[^<]+?>' starting at i, or 0 when there is none.
TagEnd(s, i) ==
  IF s[i] # "<" THEN 0
  ELSE LET js == {j \in (i + 2)..Len(s) :
                    s[j] = ">" /\ \A k \in (i + 1)..(j - 1) : s[k] # "<"}
       IN IF js = {} THEN 0 ELSE Min(js)

\* re.sub('<[^<]+?>', '', s): leftmost matches, left to right
RECURSIVE re_sub_tags(_)
re_sub_tags(s) ==
  LET starts == {i \in 1..Len(s) : TagEnd(s, i) # 0}
  IN IF starts = {} THEN s
     ELSE LET i == Min(starts)
          IN SubSeq(s, 1, i - 1) \o re_sub_tags(SubSeq(s, TagEnd(s, i) + 1, Len(s)))

strip_html_tags(t) == re_sub_tags(IF t = None THEN <<>> ELSE t)

\* url.replace(")", "%29")
RECURSIVE escape_url(_)
escape_url(url) ==
  LET hits == {i \in 1..Len(url) : url[i] = ")"}
  IN IF hits = {} THEN url
     ELSE LET i == Min(hits)
          IN SubSeq(url, 1, i - 1) \o <<"%", "2", "9">>
               \o escape_url(SubSeq(url, i + 1, Len(url)))

-----------------------------------------------------------------------------
(* Deduplication store.                                                    *)

\* Iterating a text file: the lines, each with its trailing newline.
RECURSIVE FileLines(_)
FileLines(t) ==
  LET nl == {i \in 1..Len(t) : t[i] = "\n"}
  IN IF t = <<>> THEN <<>>
     ELSE IF nl = {} THEN <<t>>
     ELSE <<SubSeq(t, 1, Min(nl))>> \o FileLines(SubSeq(t, Min(nl) + 1, Len(t)))

load_seen_articles(exists, t) ==
  IF exists
  THEN {strip(FileLines(t)[i]) : i \in {j \in 1..Len(FileLines(t)) : strip(FileLines(t)[j]) # <<>>}}
  ELSE {}

\* The orders in which iterating the set may yield its elements.
IterationOrders(S) ==
  {o \in [1..Cardinality(S) -> S] : \A i, j \in 1..Cardinality(S) : i # j => o[i] # o[j]}

\* What save_seen_articles writes when the set iterates in the given order.
RECURSIVE save_seen_articles(_)
save_seen_articles(order) ==
  IF order = <<>> THEN <<>>
  ELSE Head(order) \o <<"\n">> \o save_seen_articles(Tail(order))

-----------------------------------------------------------------------------
(* Ticker table and message constants.                                     *)

Tickers == <<"VTI", "VWO", "TIP", "GLD", "VNQ", "VGIT">>

keywords ==
  [VTI |-> "US stock market OR SP500 OR US economy OR Federal Reserve",
   VWO |-> "emerging markets OR China economy OR India economy OR developing countries",
   TIP |-> "inflation OR CPI OR TIPS bonds OR US Treasury",
   GLD |-> "gold prices OR precious metals OR gold ETF",
   VNQ |-> "real estate market OR REITs OR commercial real estate OR housing market",
   VGIT |-> "interest rates OR treasury yields OR Federal Reserve OR bond market"]

TickerText ==
  [VTI |-> <<"V", "T", "I">>, VWO |-> <<"V", "W", "O">>, TIP |-> <<"T", "I", "P">>,
   GLD |-> <<"G", "L", "D">>, VNQ |-> <<"V", "N", "Q">>,
   VGIT |-> <<"V", "G", "I", "T">>]

Queries == {keywords[Tickers[i]] : i \in 1..Len(Tickers)}

MAX_LEN == 4000

\* dict.get(key, default)
Get(d, key, default) == IF key \in DOMAIN d THEN d[key] ELSE default

\* datetime.now().strftime('%d-%m-%Y'), on the day of the run
date_now == <<"0", "1", "-", "1", "1", "-", "2", "0", "2", "6">>

HeaderText == <<"*", "T", "O", "D", "A", "Y", "'", "S", " ", "N", "E", "W", "S", ":", " ">> \o escape_markdown_v2(date_now) \o <<"*">>

TickerHeader(etf) == <<"*">> \o escape_markdown_v2(TickerText[etf]) \o <<"*", "\n">>

LinkOf(url) == <<"[", "R", "e", "a", "d", " ", "m", "o", "r", "e", "]", "(">> \o escape_url(url) \o <<")">>

\* The block send_news appends for one article.
ArticleBlock(a) ==
  <<"\n", BULLET, " ", "*">> \o escape_markdown_v2(Get(a, "title", <<>>))
    \o <<"*", "\n", " ", " ">> \o escape_markdown_v2(strip_html_tags(Get(a, "description", <<>>)))
    \o <<"\n", " ", " ">> \o LinkOf(Get(a, "url", <<>>)) \o <<"\n">>

-----------------------------------------------------------------------------
(* The environment's inputs: what the news API may answer.                 *)

aPlain ==
  [title |-> <<"F", "e", "d", "-", "1", ".", "5", "%">>,
   description |-> <<"<", "b", ">", "u", "p", "<", "/", "b", ">">>,
   url |-> <<"u", "(", "1", ")">>]

\* a record without description and url
aNoUrl == [title |-> <<"x">>]

\* a description line just under the limit, a null title, a padded url
aLong ==
  [title |-> None, description |-> Rep("a", MAX_LEN - 10), url |-> <<" ", "u", "2">>]

\* a description line longer than the limit
aHuge ==
  [title |-> <<"H">>, description |-> Rep("a", MAX_LEN + 1), url |-> <<"u", "3">>]

\* The article objects, by name: a list of articles is a list of references.
Article == [aPlain |-> aPlain, aNoUrl |-> aNoUrl, aLong |-> aLong, aHuge |-> aHuge]

ArticleLists == {<<"aPlain", "aNoUrl">>, <<"aLong", "aPlain">>, <<"aHuge">>}

\* JSON bodies of a 200 answer: without an articles field, or with one.
Bodies == {[status |-> "ok"]} \cup {[status |-> "ok", articles |-> l] : l \in ArticleLists}

\* The urls of the articles the news API may answer with.
PoolUrls == {Get(Article[n], "url", <<>>) : n \in DOMAIN Article}

\* What requests.get may produce: a 200 answer, a non-200 answer, or an exception.
ApiAnswers ==
  {[raised |-> FALSE, status |-> 200, body |-> b] : b \in Bodies}
    \cup {[raised |-> FALSE, status |-> 429, body |-> [status |-> "error"]],
          [raised |-> TRUE, status |-> 0, body |-> [status |-> "error"]]}

\* The answers the bound counts: all but the 200 answer without articles.
IsEvent(resp) ==
  resp.raised \/ resp.status # 200 \/ Get(resp.body, "articles", <<>>) # <<>>

\* The seen-articles files a previous run of the bot may have left.
InitialFiles ==
  {[exists |-> FALSE, text |-> <<>>],
   [exists |-> TRUE, text |-> save_seen_articles(<<aPlain.url>>)]}

-----------------------------------------------------------------------------
(* News fetcher.                                                           *)

\* a cache test that never hits
CacheHitNever(query, cache) == FALSE

\* get_news: the cache test
CacheHit(query, cache) == query \in DOMAIN cache

\* a fetch that raises on every answer but 200
FetchRaisesOnStatus(resp) == resp.raised \/ resp.status # 200

\* get_news: whether the call leaves by an exception
FetchRaises(resp) == resp.raised

\* get_news: the list returned after requests.get
FetchedArticles(resp) ==
  IF resp.status = 200 THEN Get(resp.body, "articles", <<>>) ELSE <<>>

\* a fetch that stores nothing
CacheAfterNoStore(cache, query, resp) == cache

\* get_news: the cache after requests.get
CacheAfter(cache, query, resp) ==
  IF resp.status = 200
  THEN [q \in DOMAIN cache \cup {query} |->
          IF q = query THEN FetchedArticles(resp) ELSE cache[q]]
  ELSE cache

-----------------------------------------------------------------------------
(* Notification dispatcher.                                                *)

\* a test that forgets the global set
SkipLocalOnly(url, seen, seen_for_etf) == url \in seen_for_etf

\* send_news: the test that skips an article
Skip(url, seen, seen_for_etf) == url \in seen \/ url \in seen_for_etf

\* send_news: the loop over the articles of one ticker
RECURSIVE ForArticles(_, _, _)
ForArticles(as, k, st) ==
  IF k > Len(as) THEN st
  ELSE LET a == Article[as[k]]
           url == Get(a, "url", <<>>)
       IN IF Skip(url, st.seen_articles, st.seen_for_etf)
          THEN ForArticles(as, k + 1, st)
          ELSE ForArticles(as, k + 1,
                 [seen_articles |-> st.seen_articles \cup {url},
                  seen_for_etf |-> st.seen_for_etf \cup {url},
                  has_articles |-> TRUE,
                  etf_message |-> st.etf_message \o ArticleBlock(a)])

\* send_news: where the splitting loop cuts
split_at(msg) == rfind(msg, "\n", 0, MAX_LEN)

\* send_news: the condition of the splitting loop
MustSplit(msg) == Len(msg) > MAX_LEN

\* What the channel received: for which ticker, how long, with which article links.
Message(etf, txt) ==
  [etf |-> etf, length |-> Len(txt), links |-> {u \in PoolUrls : Contains(txt, LinkOf(u))}]

NoTicker == [t \in {} |-> <<>>]

\* bot.send_message returned
Sent(m) ==
  /\ Len(sent) < MaxSent
  /\ sent' = Append(sent, m)
  /\ delivered' = delivered \cup m.links

\* bot.send_message raised: the handler is left
SendFailed ==
  /\ used.events < MaxEvents
  /\ used' = [used EXCEPT !.events = @ + 1]
  /\ pc' = "idle" /\ idx' = 0 /\ articles' = <<>> /\ etf_message' = <<>>
  /\ outcome' = "aborted"
  /\ UNCHANGED <<sent, delivered>>

\* the for loop of send_news moves to the next ticker, or to the save
NextTicker ==
  IF idx < Len(Tickers)
  THEN pc' = "ticker" /\ idx' = idx + 1
  ELSE pc' = "save" /\ idx' = idx

\* /getNews arrives: send_news sends the header
StartCycle ==
  /\ pc = "idle"
  /\ used.cycles < MaxCycles
  /\ seenAtStart' = seen_articles
  /\ okAtStart' = {q \in Queries : \E i \in 1..Len(apiLog[q]) : apiLog[q][i] = 200}
  /\ got' = NoTicker
  /\ non200' = {}
  /\ \/ /\ sent' = <<Message("header", HeaderText)>>
        /\ pc' = "ticker" /\ idx' = 1 /\ outcome' = "running"
        /\ used' = [used EXCEPT !.cycles = @ + 1]
        /\ UNCHANGED <<articles, etf_message, delivered>>
     \/ /\ used.events < MaxEvents
        /\ used' = [used EXCEPT !.cycles = @ + 1, !.events = @ + 1]
        /\ sent' = <<>>
        /\ outcome' = "aborted"
        /\ UNCHANGED <<pc, idx, articles, etf_message, delivered>>
  /\ UNCHANGED <<fileExists, fileText, seen_articles, news_cache, loaded, apiLog,
                 text, escaped>>

\* One pass of the for loop up to the splitting: get_news and the article loop.
Assemble(etf, list) ==
  LET st == ForArticles(list, 1,
              [seen_articles |-> seen_articles, seen_for_etf |-> {},
               has_articles |-> FALSE, etf_message |-> TickerHeader(etf)])
  IN /\ articles' = list
     /\ got' = [t \in DOMAIN got \cup {etf} |-> IF t = etf THEN list ELSE got[t]]
     /\ seen_articles' = st.seen_articles
     /\ IF st.has_articles
        THEN pc' = "split" /\ idx' = idx /\ etf_message' = st.etf_message
        ELSE NextTicker /\ etf_message' = <<>>
     /\ outcome' = outcome

\* get_news answers from the cache
ProcessCached ==
  /\ pc = "ticker"
  /\ CacheHit(keywords[Tickers[idx]], news_cache)
  /\ Assemble(Tickers[idx], news_cache[keywords[Tickers[idx]]])
  /\ UNCHANGED <<fileExists, fileText, news_cache, sent, delivered, loaded,
                 seenAtStart, okAtStart, apiLog, non200, used, text, escaped>>

\* get_news calls the news API
ProcessFetched ==
  /\ pc = "ticker"
  /\ ~CacheHit(keywords[Tickers[idx]], news_cache)
  /\ \E resp \in ApiAnswers :
       LET etf == Tickers[idx]
           query == keywords[etf]
       IN /\ IsEvent(resp) => used.events < MaxEvents
          /\ used' = [used EXCEPT !.events = IF IsEvent(resp) THEN @ + 1 ELSE @]
          /\ apiLog' = [apiLog EXCEPT ![query] = Append(@, resp.status)]
          /\ IF FetchRaises(resp)
             THEN /\ pc' = "idle" /\ idx' = 0 /\ articles' = <<>> /\ etf_message' = <<>>
                  /\ outcome' = "aborted"
                  /\ UNCHANGED <<news_cache, seen_articles, got, non200>>
             ELSE /\ news_cache' = CacheAfter(news_cache, query, resp)
                  /\ non200' = IF resp.status # 200 THEN non200 \cup {etf} ELSE non200
                  /\ Assemble(etf, FetchedArticles(resp))
  /\ UNCHANGED <<fileExists, fileText, sent, delivered, loaded, seenAtStart,
                 okAtStart, text, escaped>>

\* One iteration of the splitting loop.
SplitStep ==
  /\ pc = "split"
  /\ MustSplit(etf_message)
  /\ LET at == split_at(etf_message)
         part == SliceTo(etf_message, at)
     IN \/ /\ Sent(Message(Tickers[idx], strip(part)))
           /\ etf_message' = SliceFrom(etf_message, at)
           /\ UNCHANGED <<pc, idx, articles, outcome, used>>
        \/ SendFailed
  /\ UNCHANGED <<fileExists, fileText, seen_articles, news_cache, loaded,
                 seenAtStart, okAtStart, apiLog, got, non200, text, escaped>>

\* The splitting loop ends: the remainder is sent and the for loop goes on.
SendRemainder ==
  /\ pc = "split"
  /\ ~MustSplit(etf_message)
  /\ \/ /\ IF strip(etf_message) # <<>>
           THEN Sent(Message(Tickers[idx], strip(etf_message)))
           ELSE UNCHANGED <<sent, delivered>>
        /\ NextTicker
        /\ etf_message' = <<>>
        /\ UNCHANGED <<articles, outcome, used>>
     \/ /\ strip(etf_message) # <<>>
        /\ SendFailed
  /\ UNCHANGED <<fileExists, fileText, seen_articles, news_cache, loaded,
                 seenAtStart, okAtStart, apiLog, got, non200, text, escaped>>

\* The end of send_news: save_seen_articles(seen_articles)
Save ==
  /\ pc = "save"
  /\ \E order \in IterationOrders(seen_articles) :
       /\ fileExists' = TRUE
       /\ fileText' = save_seen_articles(order)
  /\ pc' = "idle" /\ idx' = 0 /\ articles' = <<>> /\ etf_message' = <<>>
  /\ outcome' = "completed"
  /\ UNCHANGED <<seen_articles, news_cache, sent, delivered, loaded, seenAtStart,
                 okAtStart, apiLog, got, non200, used, text, escaped>>

\* The process is started again: the module globals are initialised anew.
Restart ==
  /\ pc = "idle"
  /\ used.events < MaxEvents
  /\ used' = [used EXCEPT !.events = @ + 1, !.restarts = @ + 1]
  /\ seen_articles' = load_seen_articles(fileExists, fileText)
  /\ loaded' = load_seen_articles(fileExists, fileText)
  /\ news_cache' = NoTicker
  /\ apiLog' = [q \in Queries |-> <<>>]
  /\ sent' = <<>>
  /\ outcome' = "none"
  /\ seenAtStart' = load_seen_articles(fileExists, fileText)
  /\ okAtStart' = {}
  /\ got' = NoTicker
  /\ non200' = {}
  /\ UNCHANGED <<fileExists, fileText, pc, idx, articles, etf_message, delivered,
                 text, escaped>>

Init ==
  /\ \E f \in InitialFiles :
       /\ fileExists = f.exists
       /\ fileText = f.text
       /\ seen_articles = load_seen_articles(f.exists, f.text)
       /\ loaded = load_seen_articles(f.exists, f.text)
       /\ seenAtStart = load_seen_articles(f.exists, f.text)
  /\ news_cache = NoTicker
  /\ pc = "idle" /\ idx = 0 /\ articles = <<>> /\ etf_message = <<>>
  /\ sent = <<>>
  /\ outcome = "none"
  /\ delivered = {}
  /\ okAtStart = {}
  /\ apiLog = [q \in Queries |-> <<>>]
  /\ got = NoTicker
  /\ non200 = {}
  /\ used = [cycles |-> 0, events |-> 0, restarts |-> 0]
  /\ text = <<>>
  /\ escaped = None

Next ==
  \/ StartCycle
  \/ ProcessCached
  \/ ProcessFetched
  \/ SplitStep
  \/ SendRemainder
  \/ Save
  \/ Restart

Spec == Init /\ [][Next]_vars

-----------------------------------------------------------------------------
(* Formatter specification: escape_markdown_v2 applied to every short text. *)

\* The reserved characters of the dialect, the backslash, a letter and a blank.
Alphabet == escape_chars_documented \cup {"\\", "a", " "}

Texts == {None} \cup UNION {[1..k -> Alphabet] : k \in 0..MaxTextLen}

InitFormat ==
  /\ text \in Texts
  /\ escaped = None
  /\ fileExists = FALSE /\ fileText = <<>>
  /\ seen_articles = {} /\ loaded = {} /\ seenAtStart = {}
  /\ news_cache = NoTicker
  /\ pc = "idle" /\ idx = 0 /\ articles = <<>> /\ etf_message = <<>>
  /\ sent = <<>>
  /\ outcome = "none"
  /\ delivered = {}
  /\ okAtStart = {}
  /\ apiLog = [q \in Queries |-> <<>>]
  /\ got = NoTicker
  /\ non200 = {}
  /\ used = [cycles |-> 0, events |-> 0, restarts |-> 0]

Escape ==
  /\ escaped = None
  /\ escaped' = escape_markdown_v2(text)
  /\ UNCHANGED <<fileExists, fileText, seen_articles, news_cache, pc, idx, articles,
                 etf_message, sent, outcome, delivered, loaded, seenAtStart,
                 okAtStart, apiLog, got, non200, used, text>>

NextFormat == Escape

SpecFormat == InitFormat /\ [][NextFormat]_vars

-----------------------------------------------------------------------------
(* Properties.                                                             *)

TickerIndex(t) == CHOOSE i \in 1..Len(Tickers) : Tickers[i] = t

AllTickers == {Tickers[i] : i \in 1..Len(Tickers)}

\* the urls of a list of articles
UrlsOf(list) == {Get(Article[list[k]], "url", <<>>) : k \in 1..Len(list)}

\* the tickers a message of the current cycle went out for
MessagesFor(t) == {i \in 1..Len(sent) : sent[i].etf = t}

Answered200(log) == \E i \in 1..Len(log) : log[i] = 200

\* C1: no message of a dispatch cycle holds the article block of a url that
\* was in seen_articles when the cycle started.
C1_NoSeenUrlSent ==
  \A i \in 1..Len(sent) : sent[i].links \cap seenAtStart = {}

\* C1: a ticker's fetch returned an article whose url was seen at the start
\* of the cycle, and a message went out for that ticker.
C1_Witness ==
  \E t \in DOMAIN got :
    /\ UrlsOf(got[t]) \cap seenAtStart # {}
    /\ MessagesFor(t) # {}

\* C2 as stated: within one process, the news API answers at most one call
\* per query (every later get_news call with the query makes no network call).
C2_AtMostOneCall ==
  \A q \in Queries : Cardinality({i \in 1..Len(apiLog[q]) : apiLog[q][i] # 0}) <= 1

\* C2 amended: once the news API has answered a query with 200, every later
\* get_news call with that query in the same process makes no network call and
\* returns the list that answer cached; a query answered non-200 is fetched again.
C2_CachedAfter200 ==
  [][used'.restarts = used.restarts =>
       \A q \in Queries :
         Answered200(apiLog[q]) =>
           /\ apiLog'[q] = apiLog[q]
           /\ q \in DOMAIN news_cache /\ q \in DOMAIN news_cache'
           /\ news_cache'[q] = news_cache[q]
           /\ (pc = "ticker" /\ keywords[Tickers[idx]] = q) => articles' = news_cache[q]]_vars

\* C2: a second cycle processed a ticker whose query had been answered 200,
\* with articles, before the cycle started.
C2_Witness ==
  \E t \in DOMAIN got : keywords[t] \in okAtStart /\ got[t] # <<>>

\* C3 as stated: when two tickers' fetches of one cycle return an article with
\* the same url, not seen before, the article is in the messages of exactly one
\* ticker, the first of them in table order, and the url is in the persisted
\* set once the cycle has completed.
C3_SharedUrlOnceAndPersisted ==
  (pc = "idle" /\ outcome = "completed") =>
    \A u \in PoolUrls :
      LET having == {t \in DOMAIN got : u \in UrlsOf(got[t])}
      IN (Cardinality(having) >= 2 /\ u \notin seenAtStart) =>
           /\ {t \in AllTickers : \E i \in MessagesFor(t) : u \in sent[i].links}
                = {t \in having : \A o \in having : TickerIndex(t) <= TickerIndex(o)}
           /\ u \in load_seen_articles(fileExists, fileText)

\* C4: a fetch answered non-200 sends nothing for its ticker and the for loop
\* goes on with the next ticker; the cycle reaches the save with every ticker
\* fetched, and the save writes the seen set.
C4_Non200Continues ==
  [][/\ (/\ pc = "ticker"
         /\ Len(apiLog'[keywords[Tickers[idx]]]) > Len(apiLog[keywords[Tickers[idx]]])
         /\ apiLog'[keywords[Tickers[idx]]][Len(apiLog'[keywords[Tickers[idx]]])] \notin {0, 200})
        => /\ outcome' = "running"
           /\ sent' = sent
           /\ IF idx < Len(Tickers) THEN pc' = "ticker" /\ idx' = idx + 1
                                    ELSE pc' = "save"
     /\ pc' = "save" =>
          /\ DOMAIN got' = AllTickers
          /\ \A t \in non200' : MessagesFor(t)' = {}
     /\ (pc = "save" /\ pc' = "idle") =>
          /\ fileExists'
          /\ \E o \in IterationOrders(seen_articles) : fileText' = save_seen_articles(o)]_vars

\* C4: a cycle with a fetch answered non-200 completed, and delivered messages
\* for other tickers.
C4_Witness ==
  /\ pc = "idle" /\ outcome = "completed"
  /\ non200 # {}
  /\ Len(sent) > 1

\* C5: no message sent is longer than the maximum length.
C5_ChunkWithinLimit ==
  \A i \in 1..Len(sent) : sent[i].length <= MAX_LEN

\* C5: the splitting loop sent chunks of a message with a line just under the
\* limit, and chunks of a message with a line longer than the limit.
C5_Witness ==
  /\ \E t \in DOMAIN got :
       /\ got[t] = <<"aLong", "aPlain">>
       /\ \E i \in MessagesFor(t) : sent[i].length = MAX_LEN - 10
  /\ \E t \in DOMAIN got :
       /\ got[t] = <<"aHuge">>
       /\ Cardinality(MessagesFor(t)) >= 2

\* C6 as stated: what save_seen_articles wrote, load_seen_articles reads back
\* as the very set that was saved.
C6_SaveLoadRoundTrip ==
  (pc = "idle" /\ outcome = "completed") =>
    load_seen_articles(fileExists, fileText) = seen_articles

\* The text escape_markdown_v2 was given, absent input read as the empty text.
Given == IF text = None THEN <<>> ELSE text

\* escaped is Given with one backslash put before each character of R and
\* nothing else changed
EscapedExactly(R) ==
  LET pos(i) == i + Cardinality({j \in 1..i : Given[j] \in R})
  IN /\ Len(escaped) = Len(Given) + Cardinality({j \in 1..Len(Given) : Given[j] \in R})
     /\ \A i \in 1..Len(Given) :
          /\ escaped[pos(i)] = Given[i]
          /\ Given[i] \in R => escaped[pos(i) - 1] = "\\"

\* C7 as stated: escape_markdown_v2 puts one backslash before each character of
\* the reserved set _ * [ ] ( ) ~ ` > # + - = | { } . ! and changes nothing
\* else, a backslash of the input included.
C7_EscapesReservedOnly ==
  escaped # None => EscapedExactly(escape_chars_documented)

\* C7 amended: escape_markdown_v2 puts one backslash before each character of
\* the reserved set and before each backslash of the input, and changes nothing
\* else; empty or absent input gives the empty text.
C7_EscapesReservedAndBackslash ==
  escaped # None =>
    /\ EscapedExactly(escape_chars_documented \cup {"\\"})
    /\ (text = None \/ text = <<>>) => escaped = <<>>

\* C7: a text with a backslash and a reserved character was escaped.
C7_Witness ==
  /\ text = <<"\\", "_">>
  /\ escaped = <<"\\", "\\", "\\", "_">>

\* C8 as stated: each iteration of the splitting loop leaves a strictly
\* shorter remainder.
C8_SplitShortens ==
  [][(pc = "split" /\ pc' = "split") => Len(etf_message') < Len(etf_message)]_vars

\* C9 as stated: when no cycle is running, every url of seen_articles that was
\* not loaded at process start has been in a message the channel received.
C9_SeenWasDelivered ==
  pc = "idle" => (seen_articles \ loaded) \subseteq delivered

\* C10: a cycle sends no message for a ticker whose query was answered 200
\* before the cycle started; when every query was, the cycle sends the header
\* alone and leaves seen_articles as it was.
C10_NothingAfter200 ==
  /\ \A i \in 1..Len(sent) :
       sent[i].etf # "header" => keywords[sent[i].etf] \notin okAtStart
  /\ (okAtStart = Queries /\ outcome \in {"running", "completed"}) =>
       /\ seen_articles = seenAtStart
       /\ Len(sent) = 1 /\ sent[1].etf = "header"

\* C10: a cycle completed after every query had been answered 200, some with
\* articles that were delivered.
C10_Witness ==
  /\ pc = "idle" /\ outcome = "completed"
  /\ okAtStart = Queries
  /\ \E q \in Queries : news_cache[q] # <<>>
  /\ delivered # {}

====
